---- MODULE Spec2Model ----
(***************************************************************************)
(* The generate-post pipeline of the social-media agent: the LangGraph     *)
(* state graph of src/agents/generate-post (dedup check, link              *)
(* verification, report and post generation, the bounded condense loop,    *)
(* the human-review interrupt and its dispatch, rewrite, schedule update,  *)
(* schedule/publish) together with the used-URL store it shares with other *)
(* runs.                                                                   *)
(*                                                                         *)
(* Strings are sequences of characters, so that trim(), toLowerCase() and  *)
(* the keyword tests are computed.  A post is represented by its length,   *)
(* the only thing the routers read.  An optional value (x | undefined) is  *)
(* a record [def, s].                                                      *)
(***************************************************************************)
EXTENDS Integers, Sequences, FiniteSets, TLC

VARIABLES
    pc,         \* the stage about to run, or "suspended", "authSuspended", "end",
                \* "error" (an edge without destination), "threw" (a stage threw)
    state,      \* GeneratePostAnnotation.State
    cfg,        \* the run's configurable: [skipUsedUrlsCheck, hasStore]
    store,      \* the store item under (saved_data, used_urls)/urls: [present, data]
    sched,      \* what schedulePost did: [outcome, wrote]
    resume,     \* the value the last resume handed to interrupt(): [at, p]
    trace,      \* history: [last, downstream, allUsed, saved, overlapped, faulted, streak, usage]
    writers,    \* the saveUsedUrls calls made so far, each [urls, phase, existingUrls]
    verify,     \* the verify-links graph: its channels [relevantLinks, pageContents,
                \* imageOptions] and the tasks it has sent, each [link, out, done]
    publish     \* a publishPost call: [platforms, outs, done, results, hasSuccess, ret]

vars == <<pc, state, cfg, store, sched, resume, trace, writers, verify, publish>>

-----------------------------------------------------------------------------
(* Bounds of the model *)

MaxLinks == 2           \* longest input link list
MaxStrLen == 2          \* longest free-text resume string
MaxArgFields == 2       \* most fields present in a response's args
MaxJobs == 2            \* most saveUsedUrls calls made against the store
MaxPlatforms == 2       \* longest list of platforms of one publish attempt

(* Program constants *)

MAX_CONDENSE_ATTEMPTS == 3
TWITTER_MAX_CHAR_LENGTH == 280

END == "__end__"

-----------------------------------------------------------------------------
(* Generic helpers *)

Range(s) == {s[i] : i \in 1..Len(s)}

SeqsUpTo(S, n) == UNION {[1..k -> S] : k \in 0..n}

RECURSIVE FilterSeq(_, _)
\* Array.prototype.filter with membership in set keep as the test
FilterSeq(s, keep) ==
    IF s = <<>> THEN <<>>
    ELSE IF Head(s) \in keep THEN <<Head(s)>> \o FilterSeq(Tail(s), keep)
    ELSE FilterSeq(Tail(s), keep)

RECURSIVE Dedup(_)
\* [...new Set(array)]: first occurrences, in insertion order
Dedup(s) ==
    IF s = <<>> THEN <<>>
    ELSE LET r == Dedup(SubSeq(s, 1, Len(s) - 1))
         IN IF s[Len(s)] \in Range(r) THEN r ELSE Append(r, s[Len(s)])

Undef == [def |-> FALSE, s |-> <<>>]
Some(x) == [def |-> TRUE, s |-> x]
\* JavaScript truthiness of an optional string
Truthy(o) == o.def /\ o.s # <<>>

\* Fixed texts are one-token strings
Txt(t) == Some(<<t>>)


-----------------------------------------------------------------------------
(* The used-URL store: store-operations.ts *)

NoItem == [present |-> FALSE, data |-> <<>>]

\* A getSavedUrls that answers a failed read with what the store holds
getSavedUrlsUnfailing(hasStore, item, readOk) ==
    IF ~hasStore THEN <<>>
    ELSE IF item.present THEN item.data
    ELSE <<>>

\* getSavedUrls: [] when there is no store, no item, or the read throws
getSavedUrls(hasStore, item, readOk) ==
    IF ~hasStore THEN <<>>
    ELSE IF ~readOk THEN <<>>
    ELSE IF item.present THEN item.data
    ELSE <<>>

\* A merge that forgets what was stored
MergeUrlsReplacing(existingUrls, urls) == Dedup(urls)

\* const allUrls = [...new Set([...existingUrls, ...urls])]
MergeUrls(existingUrls, urls) == Dedup(existingUrls \o urls)

\* saveUsedUrls: the item afterwards, whether store.put ran, whether it threw
saveUsedUrls(hasStore, item, urls, readOk, putOk) ==
    IF ~hasStore THEN [item |-> item, wrote |-> FALSE, threw |-> FALSE]
    ELSE IF urls = <<>> THEN [item |-> item, wrote |-> FALSE, threw |-> FALSE]
    ELSE LET existingUrls == getSavedUrls(hasStore, item, readOk)
             allUrls == MergeUrls(existingUrls, urls)
         IN IF putOk
            THEN [item |-> [present |-> TRUE, data |-> allUrls],
                  wrote |-> TRUE, threw |-> FALSE]
            ELSE [item |-> item, wrote |-> FALSE, threw |-> TRUE]

\* A checkUrlsUsage that finds nothing in the saved set
checkUrlsUsageAllNew(savedUrls, urls) ==
    [newUrls |-> urls, duplicateUrls |-> <<>>]

\* checkUrlsUsage: partition urls against the saved set, input order kept
checkUrlsUsage(savedUrls, urls) ==
    [newUrls |-> FilterSeq(urls, Range(urls) \ Range(savedUrls)),
     duplicateUrls |-> FilterSeq(urls, Range(urls) \cap Range(savedUrls))]

\* clearSavedUrls: store.delete of the item (a failed delete throws)
clearSavedUrls(hasStore, item, delOk) ==
    IF ~hasStore THEN item
    ELSE IF delOk THEN NoItem
    ELSE item

-----------------------------------------------------------------------------
(* The state schema: the channels of GeneratePostAnnotation that the       *)
(* control flow reads, all of them overwrite channels.  The status channel *)
(* is written by every node and read by none; it is left out.              *)

InitialState(links) ==
    [links |-> links, relevantLinks |-> <<>>, report |-> "", post |-> 0,
     scheduleDate |-> "undefined", userResponse |-> Undef,
     next |-> "undefined", condenseCount |-> 0]

\* reducer: (_state, update) => update, for the keys the update carries
Merge(s, u) == [f \in DOMAIN s |-> IF f \in DOMAIN u THEN u[f] ELSE s[f]]

\* relevantLinks && relevantLinks.length > 0 ? relevantLinks : links
linksToUse(s) == IF Len(s.relevantLinks) > 0 THEN s.relevantLinks ELSE s.links

-----------------------------------------------------------------------------
(* Stage functions.  Each returns the partial update the node returns; the *)
(* outcome of a collaborator (language model, store read, parser) is a     *)
(* parameter.                                                              *)

\* Post lengths the language model (or a fallback text plus link) can have:
\* none, the limit, one over the limit
PostLengths == {0, TWITTER_MAX_CHAR_LENGTH, TWITTER_MAX_CHAR_LENGTH + 1}

\* A report is empty or not; nothing else of it is read
ReportTexts == {"", "report"}

\* An update that carries no key the model keeps
NoUpdate == [f \in {} |-> Undef]

\* A checkUrls that filters the links and leaves the counter alone
checkUrlsNoReset(s, skipCheck, savedUrls) ==
    IF skipCheck THEN NoUpdate
    ELSE IF Len(s.links) = 0 THEN NoUpdate
    ELSE LET r == checkUrlsUsage(savedUrls, s.links)
         IN IF Len(r.newUrls) = 0
            THEN [next |-> END,
                  userResponse |-> Txt("All provided URLs have already been used for post generation")]
            ELSE [links |-> r.newUrls]

\* A checkUrls that checks even when it is configured to skip the check
checkUrlsUnskippable(s, skipCheck, savedUrls) ==
    IF Len(s.links) = 0 THEN NoUpdate
    ELSE LET r == checkUrlsUsage(savedUrls, s.links)
         IN IF Len(r.newUrls) = 0
            THEN [next |-> END,
                  userResponse |-> Txt("All provided URLs have already been used for post generation")]
            ELSE [links |-> r.newUrls, condenseCount |-> 0]

\* checkUrls (check-urls.ts)
checkUrls(s, skipCheck, savedUrls) ==
    IF skipCheck THEN NoUpdate
    ELSE IF Len(s.links) = 0 THEN NoUpdate
    ELSE LET r == checkUrlsUsage(savedUrls, s.links)
         IN IF Len(r.newUrls) = 0
            THEN [next |-> END,
                  userResponse |-> Txt("All provided URLs have already been used for post generation")]
            ELSE [links |-> r.newUrls, condenseCount |-> 0]

BLACKLISTED_IMAGE_URL_ENDINGS == {".svg", ".ico", ".bmp"}

BLACKLISTED_IMAGE_URLS == {"img.shields.io", "contrib.rocks"}

\* What the string tests of utils.ts see of a URL: how it ends, the host it
\* names, and whether new URL() accepts it.  Every other URL of the model
\* is a page address with neither a listed ending nor a listed host.
UrlParts(url) ==
    CASE url = "https://a.com/image.png" ->
            [ending |-> ".png", host |-> "a.com", valid |-> TRUE]
      [] url = "https://a.com/icon.svg" ->
            [ending |-> ".svg", host |-> "a.com", valid |-> TRUE]
      [] url = "https://img.shields.io/badge/test" ->
            [ending |-> "test", host |-> "img.shields.io", valid |-> TRUE]
      [] url = "not-a-url" ->
            [ending |-> "url", host |-> "", valid |-> FALSE]
      [] url = "https://github.com/o/r" ->
            [ending |-> "r", host |-> "github.com", valid |-> TRUE]
      [] OTHER ->
            [ending |-> ".com", host |-> "a.com", valid |-> TRUE]

\* A filter that lets every URL through
filterNothing(urls) == urls

\* filterUnwantedImageUrls
filterUnwantedImageUrls(urls) ==
    FilterSeq(urls, {u \in Range(urls) :
                        /\ UrlParts(u).ending \notin BLACKLISTED_IMAGE_URL_ENDINGS
                        /\ UrlParts(u).host \notin BLACKLISTED_IMAGE_URLS
                        /\ UrlParts(u).valid})

\* A reducer that keeps the update and forgets the state
sharedLinksReducerLast(old, update) == filterUnwantedImageUrls(Dedup(update))

\* sharedLinksReducer: the update first, then the state, through a Set and
\* through the filter
sharedLinksReducer(old, update) == filterUnwantedImageUrls(Dedup(update \o old))

\* A pageContents reducer that merges like a set
pageContentsReducerDedup(old, update) == Dedup(old \o update)

\* The reducer of pageContents: (state || []).concat(update)
pageContentsReducer(old, update) == old \o update

\* verifyLinksNode: result is what the verify-links sub-graph found relevant
verifyLinksNode(s, result) ==
    IF Len(s.links) = 0 THEN NoUpdate
    ELSE [relevantLinks |->
              sharedLinksReducer(s.relevantLinks,
                                 IF Len(result) > 0 THEN result ELSE s.links)]

\* generateReport: out = [ok, text] is the model call's outcome; the two
\* fixed texts it falls back to are non-empty
generateReport(s, out) ==
    IF Len(linksToUse(s)) = 0 THEN [report |-> "report"]
    ELSE IF out.ok THEN [report |-> out.text]
    ELSE [report |-> "report"]

\* generatePost: out = [ok, len] is the model call's outcome; a fallback
\* post is a fixed sentence plus the primary link, of length out.len
generatePost(s, out) ==
    IF s.report = "" THEN [post |-> out.len]
    ELSE IF out.ok
    THEN [post |-> out.len, userResponse |-> Undef, condenseCount |-> 0]
    ELSE [post |-> out.len]

\* A condensePost that counts only the attempts that produced a post
condensePostCountingSuccess(s, out) ==
    IF s.condenseCount >= MAX_CONDENSE_ATTEMPTS
    THEN [condenseCount |-> s.condenseCount]
    ELSE IF out.ok
    THEN [post |-> out.len, condenseCount |-> s.condenseCount + 1]
    ELSE [condenseCount |-> s.condenseCount]

\* condensePost
condensePost(s, out) ==
    IF s.condenseCount >= MAX_CONDENSE_ATTEMPTS
    THEN [condenseCount |-> s.condenseCount + 1]
    ELSE IF out.ok
    THEN [post |-> out.len, condenseCount |-> s.condenseCount + 1]
    ELSE [condenseCount |-> s.condenseCount + 1]

\* rewritePost
rewritePost(s, out) ==
    IF ~Truthy(s.userResponse)
    THEN [userResponse |-> Undef, next |-> "undefined"]
    ELSE IF out.ok
    THEN [post |-> out.len, userResponse |-> Undef, next |-> "undefined",
          condenseCount |-> 0]
    ELSE [userResponse |-> Undef, next |-> "undefined"]

\* unknownResponseNode
unknownResponseNode(s) == [userResponse |-> Undef, next |-> "undefined"]

-----------------------------------------------------------------------------
(* Routers: routing.ts and check-urls.ts *)

routeAfterUrlCheck(s) == IF s.next = END THEN END ELSE "verifyLinks"

\* routeAfterPostGeneration with the limit compared by >= instead of >
routeAfterPostGenerationInclusive(s) ==
    IF s.post = 0 THEN "end"
    ELSE IF s.post >= TWITTER_MAX_CHAR_LENGTH
            /\ s.condenseCount < MAX_CONDENSE_ATTEMPTS
    THEN "condensePost"
    ELSE "humanReview"

routeAfterPostGeneration(s) ==
    IF s.post = 0 THEN "end"
    ELSE LET exceedsLimit == s.post > TWITTER_MAX_CHAR_LENGTH
             canCondense == s.condenseCount < MAX_CONDENSE_ATTEMPTS
         IN IF exceedsLimit /\ canCondense THEN "condensePost"
            ELSE "humanReview"

\* routeAfterCondense without the canCondenseMore test
routeAfterCondenseUnbounded(s) ==
    IF s.post = 0 THEN "end"
    ELSE IF s.post <= TWITTER_MAX_CHAR_LENGTH THEN "humanReview"
    ELSE "condensePost"

routeAfterCondense(s) ==
    IF s.post = 0 THEN "end"
    ELSE LET withinLimit == s.post <= TWITTER_MAX_CHAR_LENGTH
             canCondenseMore == s.condenseCount < MAX_CONDENSE_ATTEMPTS
         IN IF withinLimit THEN "humanReview"
            ELSE IF canCondenseMore THEN "condensePost"
            ELSE "humanReview"

\* routeAfterHumanResponse without the translation of END to "end"
routeAfterHumanResponseRaw(s) ==
    IF s.next = "undefined" THEN "end" ELSE s.next

routeAfterHumanResponse(s) ==
    IF s.next = "undefined" THEN "end"
    ELSE IF s.next = END THEN "end"
    ELSE s.next

routeAfterRewrite(s) ==
    IF s.post = 0 THEN "humanReview"
    ELSE LET exceedsLimit == s.post > TWITTER_MAX_CHAR_LENGTH
             canCondense == s.condenseCount < MAX_CONDENSE_ATTEMPTS
         IN IF exceedsLimit /\ canCondense THEN "condensePost"
            ELSE "humanReview"

URL_CHECK_ROUTE_MAP == [verifyLinks |-> "verifyLinks", end |-> END]

POST_GENERATION_ROUTE_MAP ==
    [condensePost |-> "condensePost", humanReview |-> "humanReview", end |-> END]

\* The route map with schedulePost sent to the schedule update
HUMAN_RESPONSE_ROUTE_MAP_Shifted ==
    [schedulePost |-> "updateScheduleDate", rewritePost |-> "rewritePost",
     updateScheduleDate |-> "updateScheduleDate",
     unknownResponse |-> "unknownResponse", end |-> END]

\* The route map with rewritePost sent to schedulePost
HUMAN_RESPONSE_ROUTE_MAP_Publishing ==
    [schedulePost |-> "schedulePost", rewritePost |-> "schedulePost",
     updateScheduleDate |-> "updateScheduleDate",
     unknownResponse |-> "unknownResponse", end |-> END]

HUMAN_RESPONSE_ROUTE_MAP ==
    [schedulePost |-> "schedulePost", rewritePost |-> "rewritePost",
     updateScheduleDate |-> "updateScheduleDate",
     unknownResponse |-> "unknownResponse", end |-> END]

\* The nodes the compiled graph registers (graph.ts addNode), with the
\* verifyLinks node that check-urls.ts routes to
Nodes ==
    {"checkUrls", "verifyLinks", "generateReport", "generatePost",
     "condensePost", "humanReview", "rewritePost", "updateScheduleDate",
     "schedulePost"}

\* A conditional edge: the router's value is looked up in the route map; a
\* value that is no key of the map, or a target that is no registered node,
\* has no destination and the run fails there.
Destination(routeMap, route) ==
    IF route \notin DOMAIN routeMap THEN "error"
    ELSE IF routeMap[route] = END THEN "end"
    ELSE IF routeMap[route] \notin Nodes THEN "error"
    ELSE routeMap[route]

-----------------------------------------------------------------------------
(* Resume values.  A value handed to interrupt() is null, a number, a      *)
(* string, or an object.  A string is free text over Alphabet, or the JSON *)
(* encoding of a scalar or of an object.  An object is described by its    *)
(* type field, its args and its top-level feedback/message/text fields.    *)

Alphabet == {"o", "k", "n", "N", " "}

toLowerCaseChar(c) == IF c = "N" THEN "n" ELSE c

toLowerCase(str) == [i \in 1..Len(str) |-> toLowerCaseChar(str[i])]

RECURSIVE trimStart(_)
trimStart(str) ==
    IF str # <<>> /\ Head(str) = " " THEN trimStart(Tail(str)) ELSE str

RECURSIVE trimEnd(_)
trimEnd(str) ==
    IF str # <<>> /\ str[Len(str)] = " "
    THEN trimEnd(SubSeq(str, 1, Len(str) - 1)) ELSE str

\* A trim that removes nothing
trimNothing(str) == str

trim(str) == trimEnd(trimStart(str))

FreeTexts == SeqsUpTo(Alphabet, MaxStrLen)

\* Values a field of args (or a top-level feedback field) can carry
FieldVals == {<<>>, <<"k">>, <<"p1">>, <<"2020-01-01">>}

ArgFields == {"feedback", "scheduleDate", "date", "post", "content", "text"}

Opt(S) == {Undef} \cup {Some(x) : x \in S}

NoFields == [f \in ArgFields |-> Undef]

\* args objects with at most MaxArgFields fields present
ArgObjects ==
    {a \in [ArgFields -> Opt(FieldVals)] :
        Cardinality({f \in ArgFields : a[f].def}) <= MaxArgFields}

\* args: absent, or an object
ArgsVals ==
    {[present |-> FALSE, f |-> NoFields]}
        \cup {[present |-> TRUE, f |-> a] : a \in ArgObjects}

PermittedTypes == {"accept", "edit", "ignore", "respond"}

\* type: the key is absent, its value is no string, or it is a string
TypeVals == PermittedTypes \cup {"<absent>", "<number>", "bogus"}

FeedbackFields == {"feedback", "message", "text"}

NoFeedback == [f \in FeedbackFields |-> Undef]

Objects ==
    {[type |-> t, args |-> a, top |-> NoFeedback] :
        t \in TypeVals, a \in ArgsVals}
    \cup {[type |-> t, args |-> [present |-> FALSE, f |-> NoFields], top |-> b] :
        t \in TypeVals \ PermittedTypes,
        b \in [FeedbackFields -> Opt({<<>>, <<"k">>})]}

NoObject ==
    [type |-> "<absent>", args |-> [present |-> FALSE, f |-> NoFields],
     top |-> NoFeedback]

Payloads ==
    {[k |-> kind, str |-> <<>>, obj |-> NoObject] :
        kind \in {"null", "number", "jsonnull", "jsonnumber"}}
    \cup {[k |-> "string", str |-> t, obj |-> NoObject] : t \in FreeTexts}
    \cup {[k |-> kind, str |-> <<>>, obj |-> o] :
        kind \in {"object", "jsonobject"}, o \in Objects}

NoPayload == [k |-> "none", str |-> <<>>, obj |-> NoObject]

\* JSON.stringify of an args object: its present keys and their values
RECURSIVE stringifyFields(_, _)
stringifyFields(a, fields) ==
    IF fields = {} THEN <<>>
    ELSE LET f == CHOOSE x \in fields : TRUE
         IN (IF a[f].def THEN <<f, ":">> \o a[f].s \o <<",">> ELSE <<>>)
                \o stringifyFields(a, fields \ {f})

stringifyArgs(args) == <<"{">> \o stringifyFields(args.f, ArgFields) \o <<"}">>

\* The text of a string payload
textOf(p) ==
    CASE p.k = "string" -> p.str
      [] p.k = "jsonnull" -> <<"null">>
      [] p.k = "jsonnumber" -> <<"5">>
      [] p.k = "jsonobject" ->
            <<"{type:", p.obj.type, ",args:">> \o stringifyArgs(p.obj.args) \o <<"}">>
      [] OTHER -> <<>>

isString(p) == p.k \in {"string", "jsonnull", "jsonnumber", "jsonobject"}

AcceptKeywords == {<<"accept">>, <<"approve">>, <<"o", "k">>, <<"yes">>}
IgnoreKeywords == {<<"ignore">>, <<"discard">>, <<"skip">>, <<"n", "o">>}

\* What parseHumanResponse returns: type, args, and whether args is the
\* {raw: response} wrapper of the default case
HumanResponse(type, args, raw) == [type |-> type, args |-> args, raw |-> raw]

AbsentArgs == [present |-> FALSE, f |-> NoFields]

FeedbackArgs(text) ==
    [present |-> TRUE, f |-> [NoFields EXCEPT !["feedback"] = Some(text)]]

\* obj.feedback || obj.message || obj.text
firstTruthy(rec, order) ==
    LET hits == {i \in 1..Len(order) : Truthy(rec[order[i]])}
    IN IF hits = {} THEN Undef
       ELSE rec[order[CHOOSE i \in hits : \A j \in hits : i <= j]]

\* A parseHumanResponse that takes a non-blank string for edit feedback
\* before it tries JSON.parse
parseHumanResponseEditFirst(p) ==
    IF p.k = "object" /\ p.obj.type \in PermittedTypes
    THEN HumanResponse(p.obj.type, p.obj.args, FALSE)
    ELSE IF isString(p)
         /\ trim(toLowerCase(textOf(p))) \in AcceptKeywords
    THEN HumanResponse("accept", AbsentArgs, FALSE)
    ELSE IF isString(p)
         /\ trim(toLowerCase(textOf(p))) \in IgnoreKeywords
    THEN HumanResponse("ignore", AbsentArgs, FALSE)
    ELSE IF isString(p) /\ Len(trim(toLowerCase(textOf(p)))) > 0
    THEN HumanResponse("edit", FeedbackArgs(textOf(p)), FALSE)
    ELSE IF p.k = "jsonobject" /\ p.obj.type \in PermittedTypes
    THEN HumanResponse(p.obj.type, p.obj.args, FALSE)
    ELSE IF p.k = "object"
         /\ Truthy(firstTruthy(p.obj.top, <<"feedback", "message", "text">>))
    THEN HumanResponse("edit",
            FeedbackArgs(firstTruthy(p.obj.top, <<"feedback", "message", "text">>).s),
            FALSE)
    ELSE HumanResponse("respond", AbsentArgs, TRUE)

\* parseHumanResponse (human-node.ts)
parseHumanResponse(p) ==
    IF p.k = "object" /\ p.obj.type \in PermittedTypes
    THEN HumanResponse(p.obj.type, p.obj.args, FALSE)
    ELSE IF isString(p)
         /\ trim(toLowerCase(textOf(p))) \in AcceptKeywords
    THEN HumanResponse("accept", AbsentArgs, FALSE)
    ELSE IF isString(p)
         /\ trim(toLowerCase(textOf(p))) \in IgnoreKeywords
    THEN HumanResponse("ignore", AbsentArgs, FALSE)
    ELSE IF p.k = "jsonobject" /\ p.obj.type \in PermittedTypes
    THEN HumanResponse(p.obj.type, p.obj.args, FALSE)
    ELSE IF isString(p) /\ Len(trim(toLowerCase(textOf(p)))) > 0
    THEN HumanResponse("edit", FeedbackArgs(textOf(p)), FALSE)
    ELSE IF p.k = "object"
         /\ Truthy(firstTruthy(p.obj.top, <<"feedback", "message", "text">>))
    THEN HumanResponse("edit",
            FeedbackArgs(firstTruthy(p.obj.top, <<"feedback", "message", "text">>).s),
            FALSE)
    ELSE HumanResponse("respond", AbsentArgs, TRUE)

\* The switch of humanReviewNode with the two checks of a respond payload
\* in the other order
humanReviewDispatchTextFirst(p) ==
    LET hr == parseHumanResponse(p)
        args == hr.args.f
        when == firstTruthy(args, <<"scheduleDate", "date">>)
        what == firstTruthy(args, <<"post", "content", "text">>)
    IN CASE hr.type = "accept" -> [next |-> "schedulePost"]
         [] hr.type = "edit" ->
                [userResponse |-> args["feedback"], next |-> "rewritePost"]
         [] hr.type = "ignore" -> [next |-> END]
         [] hr.type = "respond" ->
                IF Truthy(what)
                THEN [userResponse |-> what, next |-> "rewritePost"]
                ELSE IF Truthy(when)
                THEN [userResponse |-> when, next |-> "updateScheduleDate"]
                ELSE [userResponse |->
                          Some(IF hr.raw THEN <<"{raw:", p.k, "}">>
                               ELSE stringifyArgs(hr.args)),
                      next |-> "unknownResponse"]
         [] OTHER -> [next |-> "unknownResponse"]

\* The switch of humanReviewNode on the parsed response
humanReviewDispatch(p) ==
    LET hr == parseHumanResponse(p)
        args == hr.args.f
        when == firstTruthy(args, <<"scheduleDate", "date">>)
        what == firstTruthy(args, <<"post", "content", "text">>)
    IN CASE hr.type = "accept" -> [next |-> "schedulePost"]
         [] hr.type = "edit" ->
                [userResponse |-> args["feedback"], next |-> "rewritePost"]
         [] hr.type = "ignore" -> [next |-> END]
         [] hr.type = "respond" ->
                IF Truthy(when)
                THEN [userResponse |-> when, next |-> "updateScheduleDate"]
                ELSE IF Truthy(what)
                THEN [userResponse |-> what, next |-> "rewritePost"]
                ELSE [userResponse |->
                          Some(IF hr.raw THEN <<"{raw:", p.k, "}">>
                               ELSE stringifyArgs(hr.args)),
                      next |-> "unknownResponse"]
         [] OTHER -> [next |-> "unknownResponse"]

-----------------------------------------------------------------------------
(* updateScheduleDate and the date parser it calls *)

\* parseScheduleDate: a slot name, an absolute date, or no date at all
parseScheduleDate(input) ==
    IF trim(toLowerCase(input)) = <<>> THEN [success |-> FALSE, date |-> "undefined"]
    ELSE IF trim(toLowerCase(input)) = <<"p1">> THEN [success |-> TRUE, date |-> "p1"]
    ELSE IF trim(toLowerCase(input)) = <<"2020-01-01">>
    THEN [success |-> TRUE, date |-> "pastDate"]
    ELSE [success |-> FALSE, date |-> "undefined"]

\* validateScheduleDate: slots are always valid, a date must lie ahead
validateScheduleDate(date) == date # "pastDate"

\* An updateScheduleDate that starts the condense attempts afresh
updateScheduleDateResetting(s) ==
    IF ~Truthy(s.userResponse) THEN [userResponse |-> Undef]
    ELSE [scheduleDate |-> parseScheduleDate(s.userResponse.s).date,
          userResponse |-> Undef, condenseCount |-> 0]

\* An updateScheduleDate that stores the parsed date before validating it
updateScheduleDateEager(s) ==
    IF ~Truthy(s.userResponse) THEN [userResponse |-> Undef]
    ELSE LET parseResult == parseScheduleDate(s.userResponse.s)
         IN IF ~parseResult.success
            THEN [userResponse |-> Txt("Error: Unable to parse date")]
            ELSE IF ~validateScheduleDate(parseResult.date)
            THEN [scheduleDate |-> parseResult.date,
                  userResponse |-> Txt("Error: Schedule date must be in the future")]
            ELSE [scheduleDate |-> parseResult.date, userResponse |-> Undef]

\* updateScheduleDate
updateScheduleDate(s) ==
    IF ~Truthy(s.userResponse) THEN [userResponse |-> Undef]
    ELSE LET parseResult == parseScheduleDate(s.userResponse.s)
         IN IF ~parseResult.success
            THEN [userResponse |-> Txt("Error: Unable to parse date")]
            ELSE IF ~validateScheduleDate(parseResult.date)
            THEN [userResponse |-> Txt("Error: Schedule date must be in the future")]
            ELSE [scheduleDate |-> parseResult.date, userResponse |-> Undef]

-----------------------------------------------------------------------------
(* schedulePost with requireAuth and publishPost.  The schedule is absent  *)
(* or a slot name; a slot is never due at once.                            *)

\* requireAuth: authorized0 is checkAuthStatus before the interrupt, p the
\* value interrupt() returns, authorized1 the re-check after an accept
requireAuth(authorized0, p, authorized1) ==
    IF authorized0 THEN TRUE
    ELSE IF p.k = "object" /\ p.obj.type = "ignore" THEN FALSE
    ELSE IF p.k = "object" /\ p.obj.type = "accept" THEN authorized1
    ELSE FALSE

\* A save decision that ignores how publishing went
shouldSaveUrlsAlways(outcome, urls) == Len(urls) > 0

\* schedulePost saves linksToUse, when there are any, in its published
\* branch and in its scheduled branch
shouldSaveUrls(outcome, urls) ==
    outcome \in {"published", "scheduled"} /\ Len(urls) > 0

\* schedulePost once requireAuth has returned: hasSuccess is publishPost's
\* result.  Yields the update, the store item, and what happened.
schedulePost(s, authorized, hasSuccess, hasStore, item, readOk, putOk) ==
    LET isImmediate == s.scheduleDate = "undefined"
        outcome == IF ~authorized THEN "unauthorized"
                   ELSE IF ~isImmediate THEN "scheduled"
                   ELSE IF hasSuccess THEN "published" ELSE "failed"
        saved == IF shouldSaveUrls(outcome, linksToUse(s))
                 THEN saveUsedUrls(hasStore, item, linksToUse(s), readOk, putOk)
                 ELSE [item |-> item, wrote |-> FALSE, threw |-> FALSE]
        update == CASE outcome = "unauthorized" ->
                         [next |-> "undefined",
                          userResponse |-> Txt("Authentication required but not completed")]
                    [] outcome = "failed" ->
                         [userResponse |-> Txt("Failed to publish: All platforms failed")]
                    [] OTHER -> [next |-> "undefined", userResponse |-> Undef]
    IN [update |-> update, outcome |-> outcome, item |-> saved.item,
        wrote |-> saved.wrote, threw |-> saved.threw]

-----------------------------------------------------------------------------
(* The run: one action per stage of the compiled graph, each the node, the *)
(* merge of its update and the edge that follows it.                       *)

Links == {"https://a.com", "https://b.com"}

\* Arrays without repetition over a set of links, in any order
Arrangements(S) == {q \in SeqsUpTo(S, Cardinality(S)) : Cardinality(Range(q)) = Len(q)}

\* What the store holds when a run starts: nothing, or links saved earlier
StoreItems ==
    {NoItem} \cup {[present |-> TRUE, data |-> d] :
                      d \in {<<"https://a.com">>, <<"https://b.com">>,
                             <<"https://a.com", "https://b.com">>}}

NoSched == [outcome |-> "none", wrote |-> FALSE]

\* The verify-links graph before it is invoked: the channels' defaults
NoVerify ==
    [relevantLinks |-> <<>>, pageContents |-> <<>>, imageOptions |-> <<>>,
     tasks |-> <<>>]

\* No publishPost call under way
NoPublish ==
    [platforms |-> <<>>, outs |-> <<>>, done |-> 0, results |-> <<>>,
     hasSuccess |-> FALSE, ret |-> [returned |-> FALSE]]

NoResume == [at |-> "none", p |-> NoPayload]

\* No call of checkUrlsUsage observed yet
NoUsage ==
    [checked |-> FALSE, urls |-> <<>>, readOk |-> TRUE,
     newUrls |-> <<>>, duplicateUrls |-> <<>>]

NoTrace ==
    [last |-> "none", downstream |-> FALSE, allUsed |-> FALSE,
     saved |-> {}, overlapped |-> FALSE, faulted |-> FALSE, streak |-> 0,
     usage |-> NoUsage]

\* The stage that just ran; every stage past checkUrls is downstream of it;
\* streak counts the executions of condensePost in a row
Ran(stage) ==
    [trace EXCEPT !.last = stage,
                  !.downstream = @ \/ stage # "checkUrls",
                  !.streak = IF stage = "condensePost" THEN @ + 1 ELSE 0]

Init ==
    /\ pc = "checkUrls"
    /\ \E links \in SeqsUpTo(Links, MaxLinks) : state = InitialState(links)
    /\ cfg \in [skipUsedUrlsCheck : BOOLEAN, hasStore : BOOLEAN]
    /\ store \in IF cfg.hasStore THEN StoreItems ELSE {NoItem}
    /\ sched = NoSched
    /\ resume = NoResume
    /\ trace = NoTrace
    /\ writers = <<>>
    /\ verify = NoVerify
    /\ publish = NoPublish

Outcomes == [ok : BOOLEAN, len : PostLengths]

\* checkUrls and the conditional edge after it, with a store read that
\* succeeds (readOk) or throws: what the step does to the run
CheckUrlsStep(readOk) ==
    /\ pc = "checkUrls"
    /\ LET savedUrls == getSavedUrls(cfg.hasStore, store, readOk)
           s1 == Merge(state, checkUrls(state, cfg.skipUsedUrlsCheck, savedUrls))
       IN /\ state' = s1
          /\ pc' = Destination(URL_CHECK_ROUTE_MAP, routeAfterUrlCheck(s1))
    /\ resume' = NoResume
    /\ UNCHANGED <<cfg, store, sched, writers, verify, publish>>

CheckUrlsReading(readOk) ==
    /\ CheckUrlsStep(readOk)
    /\ trace' = [Ran("checkUrls") EXCEPT !.allUsed =
                    /\ ~cfg.skipUsedUrlsCheck
                    /\ cfg.hasStore
                    /\ Len(state.links) > 0
                    /\ Range(state.links) \subseteq Range(store.data)]

CheckUrls == \E readOk \in BOOLEAN : CheckUrlsReading(readOk)

VerifyLinks ==
    /\ pc = "verifyLinks"
    /\ \E result \in Arrangements(Range(state.links)) :
          state' = Merge(state, verifyLinksNode(state, result))
    /\ pc' = "generateReport"
    /\ trace' = Ran("verifyLinks")
    /\ resume' = NoResume
    /\ UNCHANGED <<cfg, store, sched, writers, verify, publish>>

GenerateReport ==
    /\ pc = "generateReport"
    /\ \E out \in [ok : BOOLEAN, text : ReportTexts] :
          state' = Merge(state, generateReport(state, out))
    /\ pc' = "generatePost"
    /\ trace' = Ran("generateReport")
    /\ resume' = NoResume
    /\ UNCHANGED <<cfg, store, sched, writers, verify, publish>>

GeneratePostFrom(outs) ==
    /\ pc = "generatePost"
    /\ \E out \in outs :
          \* a fallback post is never empty
          /\ (state.report = "" \/ ~out.ok) => out.len > 0
          /\ LET s1 == Merge(state, generatePost(state, out))
             IN /\ state' = s1
                /\ pc' = Destination(POST_GENERATION_ROUTE_MAP,
                                     routeAfterPostGeneration(s1))
    /\ trace' = Ran("generatePost")
    /\ resume' = NoResume
    /\ UNCHANGED <<cfg, store, sched, writers, verify, publish>>

GeneratePost == GeneratePostFrom(Outcomes)

\* A condensePost stage whose route is taken from the model call's outcome
CondensePostRoutedByCall(outs) ==
    /\ pc = "condensePost"
    /\ \E out \in outs :
          /\ state' = Merge(state, condensePost(state, out))
          /\ pc' = IF out.ok THEN "humanReview" ELSE "condensePost"
    /\ trace' = Ran("condensePost")
    /\ resume' = NoResume
    /\ UNCHANGED <<cfg, store, sched, writers, verify, publish>>

CondensePostFrom(outs) ==
    /\ pc = "condensePost"
    /\ \E out \in outs :
          LET s1 == Merge(state, condensePost(state, out))
          IN /\ state' = s1
             /\ pc' = Destination(POST_GENERATION_ROUTE_MAP, routeAfterCondense(s1))
    /\ trace' = Ran("condensePost")
    /\ resume' = NoResume
    /\ UNCHANGED <<cfg, store, sched, writers, verify, publish>>

CondensePost == CondensePostFrom(Outcomes)

\* A humanReviewNode that reviews whatever it is given
noPostNever(s) == FALSE

\* !post: nothing to review
noPost(s) == s.post = 0

\* humanReviewNode up to interrupt(): no post ends the run, otherwise the
\* run is suspended with the checkpointed state
HumanReview ==
    /\ pc = "humanReview"
    /\ IF noPost(state)
       THEN LET s1 == Merge(state, [next |-> END])
            IN /\ state' = s1
               /\ pc' = Destination(HUMAN_RESPONSE_ROUTE_MAP,
                                    routeAfterHumanResponse(s1))
       ELSE /\ pc' = "suspended"
            /\ state' = state
    /\ trace' = Ran("humanReview")
    /\ resume' = NoResume
    /\ UNCHANGED <<cfg, store, sched, writers, verify, publish>>

\* humanReviewNode from interrupt() on, resumed with p, and the edge after it
ResumeWith(p) ==
    /\ pc = "suspended"
    /\ LET s1 == Merge(state, humanReviewDispatch(p))
       IN /\ state' = s1
          /\ pc' = Destination(HUMAN_RESPONSE_ROUTE_MAP,
                               routeAfterHumanResponse(s1))
    /\ resume' = [at |-> "humanReview", p |-> p]
    /\ UNCHANGED <<cfg, store, sched, trace, writers, verify, publish>>

\* An object payload with the given type and at most one args field
Typed(type, field, value) ==
    [k |-> "object", str |-> <<>>,
     obj |-> [type |-> type,
              args |-> IF field = "none" THEN AbsentArgs
                       ELSE [present |-> TRUE,
                             f |-> [NoFields EXCEPT ![field] = Some(value)]],
              top |-> NoFeedback]]

\* The resume values the run is driven with: one or two of each shape
ResumeValues ==
    {[k |-> "null", str |-> <<>>, obj |-> NoObject],
     [k |-> "string", str |-> <<"o", "k">>, obj |-> NoObject],
     [k |-> "string", str |-> <<"k">>, obj |-> NoObject],
     [k |-> "string", str |-> <<" ">>, obj |-> NoObject],
     Typed("accept", "none", <<>>),
     Typed("ignore", "none", <<>>),
     Typed("edit", "feedback", <<"k">>),
     Typed("respond", "scheduleDate", <<"p1">>),
     Typed("respond", "scheduleDate", <<"2020-01-01">>),
     Typed("respond", "post", <<"k">>),
     Typed("respond", "none", <<>>),
     Typed("bogus", "none", <<>>)}

\* The resume values requireAuth tells apart
AuthResumeValues ==
    {[k |-> "null", str |-> <<>>, obj |-> NoObject],
     Typed("accept", "none", <<>>),
     Typed("ignore", "none", <<>>)}

Resume == \E p \in ResumeValues : ResumeWith(p)

RewritePostFrom(outs) ==
    /\ pc = "rewritePost"
    /\ \E out \in outs :
          LET s1 == Merge(state, rewritePost(state, out))
          IN /\ state' = s1
             /\ pc' = Destination(POST_GENERATION_ROUTE_MAP, routeAfterRewrite(s1))
    /\ trace' = Ran("rewritePost")
    /\ resume' = NoResume
    /\ UNCHANGED <<cfg, store, sched, writers, verify, publish>>

RewritePost == RewritePostFrom(Outcomes)

UpdateScheduleDate ==
    /\ pc = "updateScheduleDate"
    /\ state' = Merge(state, updateScheduleDate(state))
    /\ pc' = "humanReview"
    /\ trace' = Ran("updateScheduleDate")
    /\ resume' = NoResume
    /\ UNCHANGED <<cfg, store, sched, writers, verify, publish>>

\* schedulePost from requireAuth's return on; the node has no outgoing edge
FinishSchedulePost(authorized) ==
    \E hasSuccess \in BOOLEAN, readOk \in BOOLEAN, putOk \in BOOLEAN :
        LET r == schedulePost(state, authorized, hasSuccess, cfg.hasStore,
                              store, readOk, putOk)
        IN /\ store' = r.item
           /\ sched' = [outcome |-> r.outcome, wrote |-> r.wrote]
           /\ IF r.threw
              THEN pc' = "threw" /\ state' = state
              ELSE pc' = "end" /\ state' = Merge(state, r.update)
           /\ trace' = Ran("schedulePost")

\* schedulePost entered from humanReview: authorized platforms go on, the
\* others suspend the run inside requireAuth
SchedulePost ==
    /\ pc = "schedulePost"
    /\ \E authorized0 \in BOOLEAN :
          IF authorized0
          THEN FinishSchedulePost(TRUE)
          ELSE /\ pc' = "authSuspended"
               /\ UNCHANGED <<state, store, sched, trace>>
    /\ resume' = NoResume
    /\ UNCHANGED <<cfg, writers, verify, publish>>

\* schedulePost re-entered by a resume: the node runs again from its start
AuthResume ==
    /\ pc = "authSuspended"
    /\ \E p \in AuthResumeValues, authorized0 \in BOOLEAN, authorized1 \in BOOLEAN :
          /\ FinishSchedulePost(requireAuth(authorized0, p, authorized1))
          /\ resume' = [at |-> "requireAuth", p |-> p]
    /\ UNCHANGED <<cfg, writers, verify, publish>>

Next ==
    \/ CheckUrls
    \/ VerifyLinks
    \/ GenerateReport
    \/ GeneratePost
    \/ CondensePost
    \/ HumanReview
    \/ Resume
    \/ RewritePost
    \/ UpdateScheduleDate
    \/ SchedulePost
    \/ AuthResume

Spec == Init /\ [][Next]_vars

\* The steps the runtime takes by itself: once invoked or resumed it runs
\* stage after stage until a stage suspends or the run ends.  A resume is
\* the caller's step and may never come.
Stages ==
    \/ CheckUrls
    \/ VerifyLinks
    \/ GenerateReport
    \/ GeneratePost
    \/ CondensePost
    \/ HumanReview
    \/ RewritePost
    \/ UpdateScheduleDate
    \/ SchedulePost

FairSpec == Spec /\ WF_vars(Stages)

-----------------------------------------------------------------------------
(* The resume step on its own: a run suspended at human review with a post *)
(* that fits, resumed with any payload of the bounded family.              *)

ParseInit ==
    /\ pc = "suspended"
    /\ state = [InitialState(<<"https://a.com">>) EXCEPT
                    !.relevantLinks = <<"https://a.com">>,
                    !.report = "report",
                    !.post = TWITTER_MAX_CHAR_LENGTH]
    /\ cfg = [skipUsedUrlsCheck |-> FALSE, hasStore |-> TRUE]
    /\ store = NoItem
    /\ sched = NoSched
    /\ resume = NoResume
    /\ trace = [NoTrace EXCEPT !.last = "humanReview", !.downstream = TRUE]
    /\ writers = <<>>
    /\ verify = NoVerify
    /\ publish = NoPublish

ResumeAny == \E p \in Payloads : ResumeWith(p)

ParseNext == ResumeAny

ParseSpec == ParseInit /\ [][ParseNext]_vars

-----------------------------------------------------------------------------
(* The store shared by several runs.  saveUsedUrls is two awaits, store.get *)
(* and store.put; calls made by different runs interleave between them.     *)

\* The arrays a run hands to saveUsedUrls
SaveArrays == Arrangements(Links)

StoreInit ==
    /\ pc = "end"
    /\ state = InitialState(<<>>)
    /\ cfg \in [skipUsedUrlsCheck : {FALSE}, hasStore : BOOLEAN]
    /\ store \in IF cfg.hasStore THEN StoreItems ELSE {NoItem}
    /\ sched = NoSched
    /\ resume = NoResume
    /\ trace = NoTrace
    /\ writers = <<>>
    /\ verify = NoVerify
    /\ publish = NoPublish

\* saveUsedUrls up to and including await getSavedUrls(config)
SaveRead ==
    /\ Len(writers) < MaxJobs
    /\ \E urls \in SaveArrays, readOk \in BOOLEAN :
          IF ~cfg.hasStore \/ urls = <<>>
          THEN /\ writers' = Append(writers,
                      [urls |-> urls, phase |-> "done", existingUrls |-> <<>>])
               /\ trace' = trace
          ELSE /\ writers' = Append(writers,
                      [urls |-> urls, phase |-> "read",
                       existingUrls |-> getSavedUrls(cfg.hasStore, store, readOk)])
               /\ trace' = [trace EXCEPT
                      !.overlapped = @ \/ \E j \in 1..Len(writers) :
                                             writers[j].phase = "read",
                      !.faulted = @ \/ ~readOk]
    /\ UNCHANGED <<pc, state, cfg, store, sched, resume, verify, publish>>

\* saveUsedUrls from the merge to the end of await store.put(...)
SavePut ==
    /\ \E j \in 1..Len(writers), putOk \in BOOLEAN :
          /\ writers[j].phase = "read"
          /\ IF putOk
             THEN /\ store' = [present |-> TRUE,
                               data |-> MergeUrls(writers[j].existingUrls,
                                                  writers[j].urls)]
                  /\ writers' = [writers EXCEPT ![j].phase = "done"]
                  /\ trace' = [trace EXCEPT
                                  !.saved = @ \cup Range(writers[j].urls)]
             ELSE /\ store' = store
                  /\ writers' = [writers EXCEPT ![j].phase = "threw"]
                  /\ trace' = trace
    /\ UNCHANGED <<pc, state, cfg, sched, resume, verify, publish>>

\* clearSavedUrls, called between saves
ClearSavedUrls ==
    /\ cfg.hasStore
    /\ store.present
    /\ \E delOk \in BOOLEAN :
          /\ store' = clearSavedUrls(cfg.hasStore, store, delOk)
          /\ trace' = [trace EXCEPT !.saved = IF delOk THEN {} ELSE @]
    /\ UNCHANGED <<pc, state, cfg, sched, resume, writers, verify, publish>>

StoreNext ==
    \/ SaveRead
    \/ SavePut
    \/ ClearSavedUrls

StoreSpec == StoreInit /\ [][StoreNext]_vars

-----------------------------------------------------------------------------
(* checkUrlsUsage on its own, called with any candidates against any store *)

UsageLinks == {"https://used.com", "https://new.com", "https://a.com"}

\* What the store holds: nothing, or an array saved earlier
UsageItems ==
    {NoItem} \cup {[present |-> TRUE, data |-> d] : d \in Arrangements(UsageLinks)}

UsageInit ==
    /\ pc = "checkUrls"
    /\ state = InitialState(<<>>)
    /\ cfg \in [skipUsedUrlsCheck : {FALSE}, hasStore : BOOLEAN]
    /\ store \in IF cfg.hasStore THEN UsageItems ELSE {NoItem}
    /\ sched = NoSched
    /\ resume = NoResume
    /\ trace = NoTrace
    /\ writers = <<>>
    /\ verify = NoVerify
    /\ publish = NoPublish

\* One call of checkUrlsUsage(config, urls): a read of the store, no write
CheckUrlsUsage ==
    /\ \E urls \in SeqsUpTo(UsageLinks, MaxLinks), readOk \in BOOLEAN :
          LET r == checkUrlsUsage(getSavedUrls(cfg.hasStore, store, readOk), urls)
          IN trace' = [trace EXCEPT !.usage =
                          [checked |-> TRUE, urls |-> urls, readOk |-> readOk,
                           newUrls |-> r.newUrls,
                           duplicateUrls |-> r.duplicateUrls]]
    /\ UNCHANGED <<pc, state, cfg, store, sched, resume, writers, verify, publish>>

UsageNext == CheckUrlsUsage

UsageSpec == UsageInit /\ [][UsageNext]_vars

-----------------------------------------------------------------------------
(* The verify-links graph on its own: one task per link, sent at START,    *)
(* each returning once; the returns are merged in whatever order they come. *)

PageUrls == {"https://a.com", "https://github.com/o/r"}

ImageUrls ==
    {"https://a.com/image.png", "https://a.com/icon.svg",
     "https://img.shields.io/badge/test", "not-a-url"}

\* How a task ends: the fetch throws or finds nothing, the relevancy call
\* throws, the content is judged not relevant, or it is relevant (or the
\* relevancy check is skipped) and the page showed the given images
TaskOutcomes ==
    {[kind |-> k, images |-> <<>>] :
        k \in {"fetchFailed", "classifyFailed", "notRelevant"}}
    \cup {[kind |-> "relevant", images |-> i] : i \in SeqsUpTo(ImageUrls, 1)}

\* A verifyGeneralContent that hands on the link when the relevancy call fails
verifyGeneralContentLenient(link, out) ==
    IF out.kind \in {"fetchFailed", "notRelevant"}
    THEN [relevantLinks |-> <<>>, pageContents |-> <<>>]
    ELSE [relevantLinks |-> <<link>>, pageContents |-> <<link>>]

\* verifyGeneralContent; the content of a page is named by its link
verifyGeneralContent(link, out) ==
    IF out.kind # "relevant"
    THEN [relevantLinks |-> <<>>, pageContents |-> <<>>]
    ELSE IF Len(out.images) > 0
    THEN [relevantLinks |-> <<link>>, pageContents |-> <<link>>,
          imageOptions |-> out.images]
    ELSE [relevantLinks |-> <<link>>, pageContents |-> <<link>>]

\* verifyGitHubContent
verifyGitHubContent(link, out) ==
    IF out.kind # "relevant"
    THEN [relevantLinks |-> <<>>, pageContents |-> <<>>]
    ELSE [relevantLinks |-> <<link>>, pageContents |-> <<link>>]

getUrlType(url) ==
    IF UrlParts(url).host = "github.com" THEN "github" ELSE "general"

\* routeLinkTypes: a Send to the node of the link's type, for every link
routeLinkTypes(links, outs) ==
    [j \in 1..Len(links) |->
        [link |-> links[j],
         node |-> IF getUrlType(links[j]) = "github"
                  THEN "verifyGitHubContent" ELSE "verifyGeneralContent",
         out |-> outs[j], done |-> FALSE]]

\* What a task returns
TaskResult(task) ==
    IF task.node = "verifyGitHubContent"
    THEN verifyGitHubContent(task.link, task.out)
    ELSE verifyGeneralContent(task.link, task.out)

VerifyInit ==
    /\ pc = "verifyLinks"
    /\ \E links \in SeqsUpTo(PageUrls, MaxLinks) :
          /\ state = InitialState(links)
          /\ \E outs \in [1..Len(links) -> TaskOutcomes] :
                verify = [NoVerify EXCEPT !.tasks = routeLinkTypes(links, outs)]
    /\ cfg = [skipUsedUrlsCheck |-> FALSE, hasStore |-> FALSE]
    /\ store = NoItem
    /\ sched = NoSched
    /\ resume = NoResume
    /\ trace = NoTrace
    /\ writers = <<>>
    /\ publish = NoPublish

\* A task returns and its update goes through the channels' reducers
TaskReturns ==
    /\ \E j \in 1..Len(verify.tasks) :
          /\ ~verify.tasks[j].done
          /\ LET ret == TaskResult(verify.tasks[j])
             IN verify' =
                   [verify EXCEPT
                      !.tasks[j].done = TRUE,
                      !.relevantLinks = sharedLinksReducer(@, ret.relevantLinks),
                      !.pageContents = pageContentsReducer(@, ret.pageContents),
                      !.imageOptions =
                          IF "imageOptions" \in DOMAIN ret
                          THEN sharedLinksReducer(@, ret.imageOptions)
                          ELSE @]
    /\ UNCHANGED <<pc, state, cfg, store, sched, resume, trace, writers, publish>>

VerifySpec == VerifyInit /\ [][TaskReturns]_vars

-----------------------------------------------------------------------------
(* publishPost on its own: the loop over the requested platforms, one      *)
(* iteration per step, then the return.  What a platform does is drawn     *)
(* from PlatformOutcomes: the client posts ("success"), the client returns *)
(* a failed result ("failure"), create*Client returns undefined            *)
(* ("unavailable"), or the client call throws ("exception").               *)

Platforms == {"twitter", "linkedin"}

PlatformOutcomes == {"success", "failure", "unavailable", "exception"}

\* An iteration whose thrown exception leaves no result behind
publishPlatformUncaught(results, hasSuccess, platform, out) ==
    [results |-> IF out = "exception" THEN results
                 ELSE Append(results, [platform |-> platform,
                                       success |-> out = "success",
                                       error |-> IF out = "success" THEN "none" ELSE out]),
     hasSuccess |-> hasSuccess \/ out = "success"]

\* One iteration of publishPost's loop: the try block and its catch
publishPlatform(results, hasSuccess, platform, out) ==
    CASE out \in {"success", "failure"} ->
            \* results.push({platform, ...result}); if (result.success) ...
            [results |-> Append(results, [platform |-> platform,
                                          success |-> out = "success",
                                          error |-> IF out = "success" THEN "none"
                                                    ELSE "failure"]),
             hasSuccess |-> hasSuccess \/ out = "success"]
      [] out = "unavailable" ->
            [results |-> Append(results, [platform |-> platform, success |-> FALSE,
                                          error |-> "Client not available"]),
             hasSuccess |-> hasSuccess]
      [] OTHER ->
            \* catch (error)
            [results |-> Append(results, [platform |-> platform, success |-> FALSE,
                                          error |-> "exception"]),
             hasSuccess |-> hasSuccess]

PublishInit ==
    /\ pc = "publishPost"
    /\ \E platforms \in SeqsUpTo(Platforms, MaxPlatforms) :
          \E outs \in [1..Len(platforms) -> PlatformOutcomes] :
             publish = [NoPublish EXCEPT !.platforms = platforms, !.outs = outs]
    /\ state = InitialState(<<"https://a.com">>)
    /\ cfg = [skipUsedUrlsCheck |-> FALSE, hasStore |-> FALSE]
    /\ store = NoItem
    /\ sched = NoSched
    /\ resume = NoResume
    /\ trace = NoTrace
    /\ writers = <<>>
    /\ verify = NoVerify

\* for (const platform of platforms) { try { ... } catch { ... } }
PublishAttempt ==
    /\ pc = "publishPost"
    /\ publish.done < Len(publish.platforms)
    /\ LET i == publish.done + 1
           r == publishPlatform(publish.results, publish.hasSuccess,
                                publish.platforms[i], publish.outs[i])
       IN publish' = [publish EXCEPT !.done = i,
                                     !.results = r.results,
                                     !.hasSuccess = r.hasSuccess]
    /\ UNCHANGED <<pc, state, cfg, store, sched, resume, trace, writers, verify>>

\* return { published: hasSuccess, results, error: ... }
PublishReturn ==
    /\ pc = "publishPost"
    /\ publish.done >= Len(publish.platforms)
    /\ publish' = [publish EXCEPT
                     !.ret = [returned |-> TRUE,
                              published |-> publish.hasSuccess,
                              results |-> publish.results,
                              error |-> IF publish.hasSuccess THEN "none"
                                        ELSE "All platforms failed"]]
    /\ pc' = "returned"
    /\ UNCHANGED <<state, cfg, store, sched, resume, trace, writers, verify>>

PublishSpec == PublishInit /\ [][PublishAttempt \/ PublishReturn]_vars

-----------------------------------------------------------------------------
(* Two runs of the graph against one store.  Each run is followed from its *)
(* dedup check to the end of saveUsedUrls; the stages between link         *)
(* verification and the accepted review change neither the links nor the   *)
(* store and are passed over.  The runs are kept in writers, each          *)
(* [links, urls, phase, existingUrls, readOk, after, outcome]: its input,  *)
(* the links it goes on with, where it is, what its save read, whether the *)
(* read of its dedup check succeeded, the runs that had ended with a       *)
(* publish or a schedule when it made that check, and what schedulePost    *)
(* did.                                                                    *)

Instances == 1..2

RunsInit ==
    /\ pc = "checkUrls"
    /\ state = InitialState(<<>>)
    /\ cfg = [skipUsedUrlsCheck |-> FALSE, hasStore |-> TRUE]
    /\ store \in StoreItems
    /\ sched = NoSched
    /\ resume = NoResume
    /\ trace = NoTrace
    /\ \E input \in [Instances -> Arrangements(Links)] :
          writers = [j \in Instances |->
                        [links |-> input[j], urls |-> input[j],
                         phase |-> "checkUrls", existingUrls |-> <<>>,
                         readOk |-> TRUE, after |-> {}, outcome |-> "none"]]
    /\ verify = NoVerify
    /\ publish = NoPublish

\* checkUrls of run j and the conditional edge after it
RunCheckUrls(j) ==
    /\ writers[j].phase = "checkUrls"
    /\ \E readOk \in BOOLEAN :
          LET savedUrls == getSavedUrls(cfg.hasStore, store, readOk)
              s0 == InitialState(writers[j].links)
              s1 == Merge(s0, checkUrls(s0, cfg.skipUsedUrlsCheck, savedUrls))
          IN writers' =
                [writers EXCEPT
                   ![j].urls = s1.links,
                   ![j].readOk = readOk,
                   ![j].after = {i \in Instances :
                                    /\ writers[i].phase = "end"
                                    /\ writers[i].outcome \in {"published", "scheduled"}},
                   ![j].phase = Destination(URL_CHECK_ROUTE_MAP,
                                            routeAfterUrlCheck(s1))]
    /\ UNCHANGED <<pc, state, cfg, store, sched, resume, trace, verify, publish>>

\* verifyLinksNode of run j; the run then goes on to schedulePost
RunVerifyLinks(j) ==
    /\ writers[j].phase = "verifyLinks"
    /\ \E result \in Arrangements(Range(writers[j].urls)) :
          LET s1 == InitialState(writers[j].urls)
              s2 == Merge(s1, verifyLinksNode(s1, result))
          IN writers' = [writers EXCEPT ![j].urls = linksToUse(s2),
                                        ![j].phase = "schedulePost"]
    /\ UNCHANGED <<pc, state, cfg, store, sched, resume, trace, verify, publish>>

\* schedulePost of run j up to its call of saveUsedUrls
RunSchedulePost(j) ==
    /\ writers[j].phase = "schedulePost"
    /\ \E outcome \in {"published", "scheduled", "failed"} :
          writers' = [writers EXCEPT
                        ![j].outcome = outcome,
                        ![j].phase = IF shouldSaveUrls(outcome, writers[j].urls)
                                     THEN "saveUsedUrls" ELSE "end"]
    /\ UNCHANGED <<pc, state, cfg, store, sched, resume, trace, verify, publish>>

\* saveUsedUrls of run j up to and including await getSavedUrls(config)
RunSaveRead(j) ==
    /\ writers[j].phase = "saveUsedUrls"
    /\ \E readOk \in BOOLEAN :
          writers' = [writers EXCEPT
                        ![j].existingUrls = getSavedUrls(cfg.hasStore, store, readOk),
                        ![j].phase = "read"]
    /\ UNCHANGED <<pc, state, cfg, store, sched, resume, trace, verify, publish>>

\* saveUsedUrls of run j from the merge to the end of await store.put(...)
RunSavePut(j) ==
    /\ writers[j].phase = "read"
    /\ \E putOk \in BOOLEAN :
          IF putOk
          THEN /\ store' = [present |-> TRUE,
                            data |-> MergeUrls(writers[j].existingUrls,
                                               writers[j].urls)]
               /\ writers' = [writers EXCEPT ![j].phase = "end"]
          ELSE /\ store' = store
               /\ writers' = [writers EXCEPT ![j].phase = "threw"]
    /\ UNCHANGED <<pc, state, cfg, sched, resume, trace, verify, publish>>

RunsSpec ==
    RunsInit /\ [][\E j \in Instances : \/ RunCheckUrls(j)
                                        \/ RunVerifyLinks(j)
                                        \/ RunSchedulePost(j)
                                        \/ RunSaveRead(j)
                                        \/ RunSavePut(j)]_vars

-----------------------------------------------------------------------------
(* The upload_post graph: validatePost, checkAuth, uploadPost, finalize.   *)
(* Its state is [content, platforms, results, success, error]; a content   *)
(* is its length and whether nothing is left of it after trim().  The      *)
(* calls uploadPost makes to the platform clients are kept in publish.     *)

Contents ==
    {[len |-> 0, blank |-> TRUE], [len |-> 1, blank |-> TRUE],
     [len |-> 1, blank |-> FALSE],
     [len |-> TWITTER_MAX_CHAR_LENGTH, blank |-> FALSE],
     [len |-> TWITTER_MAX_CHAR_LENGTH + 1, blank |-> FALSE]}

\* A validatePost that applies the Twitter limit to no post
validatePostUnlimited(s) ==
    IF s.content.len = 0 \/ s.content.blank
    THEN [success |-> FALSE, error |-> "Post content is empty"]
    ELSE NoUpdate

\* validatePost
validatePost(s) ==
    IF s.content.len = 0 \/ s.content.blank
    THEN [success |-> FALSE, error |-> "Post content is empty"]
    ELSE IF "twitter" \in Range(s.platforms) /\ s.content.len > 280
    THEN [success |-> FALSE, error |-> "Post exceeds Twitter's 280 character limit"]
    ELSE NoUpdate

\* checkAuth once requireAuth has returned
checkAuth(s, authorized) ==
    IF ~authorized
    THEN [success |-> FALSE, error |-> "Authentication failed"]
    ELSE NoUpdate

\* The loop of uploadPost over platforms[i..]: its results and hasSuccess
RECURSIVE uploadLoop(_, _, _, _)
uploadLoop(platforms, outs, i, acc) ==
    IF i > Len(platforms) THEN acc
    ELSE uploadLoop(platforms, outs, i + 1,
                    publishPlatform(acc.results, acc.hasSuccess,
                                    platforms[i], outs[i]))

\* uploadPost: nothing when an error came before, otherwise every platform
uploadPost(s, outs) ==
    IF s.error # "undefined" THEN NoUpdate
    ELSE LET r == uploadLoop(s.platforms, outs, 1,
                             [results |-> <<>>, hasSuccess |-> FALSE])
         IN [results |-> r.results, success |-> r.hasSuccess,
             error |-> IF r.hasSuccess THEN "undefined"
                       ELSE "All platforms failed"]

routeAfterValidation(s) == IF s.error # "undefined" THEN "finalize" ELSE "checkAuth"

routeAfterAuth(s) == IF s.error # "undefined" THEN "finalize" ELSE "uploadPost"

UploadInit ==
    /\ pc = "validatePost"
    /\ \E content \in Contents, platforms \in SeqsUpTo(Platforms, MaxPlatforms),
          error \in {"undefined", "earlier error"} :
          state = [content |-> content, platforms |-> platforms,
                   results |-> <<>>, success |-> FALSE, error |-> error]
    /\ cfg = [skipUsedUrlsCheck |-> FALSE, hasStore |-> FALSE]
    /\ store = NoItem
    /\ sched = NoSched
    /\ resume = NoResume
    /\ trace = NoTrace
    /\ writers = <<>>
    /\ verify = NoVerify
    /\ publish = NoPublish

ValidatePost ==
    /\ pc = "validatePost"
    /\ state' = Merge(state, validatePost(state))
    /\ pc' = routeAfterValidation(state')
    /\ trace' = Ran("validatePost")
    /\ UNCHANGED <<cfg, store, sched, resume, writers, verify, publish>>

\* checkAuth: platforms that are all authorized go on; otherwise the run
\* is suspended inside requireAuth
CheckAuth ==
    /\ pc = "checkAuth"
    /\ \E authorized0 \in BOOLEAN :
          IF authorized0 \/ state.platforms = <<>>
          THEN /\ state' = Merge(state, checkAuth(state, TRUE))
               /\ pc' = routeAfterAuth(state')
               /\ trace' = Ran("checkAuth")
          ELSE /\ pc' = "checkAuthSuspended"
               /\ UNCHANGED <<state, trace>>
    /\ UNCHANGED <<cfg, store, sched, resume, writers, verify, publish>>

\* checkAuth re-entered by a resume: the node runs again from its start
CheckAuthResume ==
    /\ pc = "checkAuthSuspended"
    /\ \E p \in AuthResumeValues, authorized0 \in BOOLEAN, authorized1 \in BOOLEAN :
          /\ state' = Merge(state, checkAuth(state,
                                   requireAuth(authorized0, p, authorized1)))
          /\ resume' = [at |-> "requireAuth", p |-> p]
    /\ pc' = routeAfterAuth(state')
    /\ trace' = Ran("checkAuth")
    /\ UNCHANGED <<cfg, store, sched, writers, verify, publish>>

UploadPost ==
    /\ pc = "uploadPost"
    /\ \E outs \in [1..Len(state.platforms) -> PlatformOutcomes] :
          LET u == uploadPost(state, outs)
          IN /\ state' = Merge(state, u)
             /\ publish' = IF "results" \in DOMAIN u
                           THEN [publish EXCEPT !.platforms = state.platforms,
                                                !.outs = outs,
                                                !.done = Len(state.platforms),
                                                !.results = u.results,
                                                !.hasSuccess = u.success]
                           ELSE publish
    /\ pc' = "finalize"
    /\ trace' = Ran("uploadPost")
    /\ UNCHANGED <<cfg, store, sched, resume, writers, verify>>

Finalize ==
    /\ pc = "finalize"
    /\ pc' = "end"
    /\ trace' = Ran("finalize")
    /\ UNCHANGED <<state, cfg, store, sched, resume, writers, verify, publish>>

UploadSpec ==
    UploadInit /\ [][\/ ValidatePost
                     \/ CheckAuth
                     \/ CheckAuthResume
                     \/ UploadPost
                     \/ Finalize]_vars

-----------------------------------------------------------------------------
(* The two graphs that publish, side by side: a run is a run of the        *)
(* generate_post graph or a run of the upload_post graph.                  *)

GraphsSpec ==
    (Init \/ UploadInit)
       /\ [][\/ Next
             \/ ValidatePost
             \/ CheckAuth
             \/ CheckAuthResume
             \/ UploadPost
             \/ Finalize]_vars

-----------------------------------------------------------------------------
(* The entry of a run on its own: checkUrls, on an input that may carry a  *)
(* condenseCount, with the call of checkUrlsUsage it makes kept in trace.   *)

EntryInit ==
    /\ pc = "checkUrls"
    /\ \E links \in SeqsUpTo(Links, MaxLinks), count \in 0..MAX_CONDENSE_ATTEMPTS :
          state = [InitialState(links) EXCEPT !.condenseCount = count]
    /\ cfg \in [skipUsedUrlsCheck : BOOLEAN, hasStore : BOOLEAN]
    /\ store \in IF cfg.hasStore THEN StoreItems ELSE {NoItem}
    /\ sched = NoSched
    /\ resume = NoResume
    /\ trace = NoTrace
    /\ writers = <<>>
    /\ verify = NoVerify
    /\ publish = NoPublish

EntryCheck ==
    \E readOk \in BOOLEAN :
        /\ CheckUrlsStep(readOk)
        /\ LET r == checkUrlsUsage(getSavedUrls(cfg.hasStore, store, readOk),
                                   state.links)
           IN trace' = [Ran("checkUrls") EXCEPT !.usage =
                           IF cfg.skipUsedUrlsCheck \/ Len(state.links) = 0
                           THEN NoUsage
                           ELSE [checked |-> TRUE, urls |-> state.links,
                                 readOk |-> readOk,
                                 newUrls |-> r.newUrls,
                                 duplicateUrls |-> r.duplicateUrls]]

EntrySpec == EntryInit /\ [][EntryCheck]_vars

-----------------------------------------------------------------------------
(* The generation loop on its own, from a finished report to the hand-over *)
(* to schedulePost, with more post lengths than the whole run is given.    *)

\* Post lengths of the loop: those above, and 260 and 320 characters
WidePostLengths == PostLengths \cup {260, 320}

WideOutcomes == [ok : BOOLEAN, len : WidePostLengths]

\* The input of a run is a state of GeneratePostAnnotation: it may carry a
\* condenseCount, and a thread that is run again keeps the one its last run
\* ended with.  checkUrls sets it to 0 unless the check is skipped; the
\* stages between checkUrls and generatePost leave it alone.
LoopInit ==
    /\ pc = "generatePost"
    /\ cfg \in [skipUsedUrlsCheck : BOOLEAN, hasStore : {TRUE}]
    /\ \E text \in ReportTexts, count \in 0..MAX_CONDENSE_ATTEMPTS :
          /\ ~cfg.skipUsedUrlsCheck => count = 0
          /\ state = [InitialState(<<"https://a.com">>) EXCEPT
                         !.relevantLinks = <<"https://a.com">>,
                         !.report = text,
                         !.condenseCount = count]
    /\ store = NoItem
    /\ sched = NoSched
    /\ resume = NoResume
    /\ trace = [NoTrace EXCEPT !.last = "generateReport", !.downstream = TRUE]
    /\ writers = <<>>
    /\ verify = NoVerify
    /\ publish = NoPublish

LoopNext ==
    \/ GeneratePostFrom(WideOutcomes)
    \/ CondensePostFrom(WideOutcomes)
    \/ HumanReview
    \/ Resume
    \/ RewritePostFrom(WideOutcomes)
    \/ UpdateScheduleDate

LoopSpec == LoopInit /\ [][LoopNext]_vars

-----------------------------------------------------------------------------
(* Properties *)

\* A resume at human review with a typed object of the given type
ResumedWith(type) ==
    /\ resume.at = "humanReview"
    /\ resume.p.k = "object"
    /\ resume.p.obj.type = type

\* C1: in every reachable state the condense counter is an integer between
\* 0 and MAX_CONDENSE_ATTEMPTS inclusive.
C1_CondenseCountBounded ==
    state.condenseCount \in 0..MAX_CONDENSE_ATTEMPTS

\* the limit is reached with a post still too long, and the run went on
C1_Witness ==
    /\ pc = "suspended"
    /\ state.condenseCount = MAX_CONDENSE_ATTEMPTS
    /\ state.post > TWITTER_MAX_CHAR_LENGTH

\* C2: with the store available and saves made one after the other, every
\* link handed to a completed save is in the stored array afterwards.
C2_SequentialSavesKept ==
    (cfg.hasStore /\ ~trace.overlapped /\ ~trace.faulted)
        => trace.saved \subseteq Range(store.data)

\* two saves of different links, one after the other, both completed
C2_Witness ==
    /\ cfg.hasStore /\ ~trace.overlapped /\ ~trace.faulted
    /\ Len(writers) = 2
    /\ \A j \in 1..2 : writers[j].phase = "done" /\ Len(writers[j].urls) = 1
    /\ writers[1].urls # writers[2].urls
    /\ trace.saved = Links
    /\ Range(store.data) = Links

\* C3: whatever saves run, and however they interleave, a link that is
\* stored stays stored until clearSavedUrls removes the item.
C3_StoredLinksStay ==
    [][store'.present => Range(store.data) \subseteq Range(store'.data)]_vars

\* C4: with the check enabled and every input link in the cache, the run
\* ends right after checkUrls: no later stage runs, nothing is published,
\* the cache is not written.
C4_AllUsedEndsQuietly ==
    trace.allUsed =>
        /\ pc = "end"
        /\ ~trace.downstream
        /\ sched = NoSched

\* C5: the cache is written only by schedulePost, and only when the post was
\* published on a platform or scheduled; never when authentication was not
\* completed or every platform failed.
C5_WriteOnlyOnPublish ==
    /\ [](sched.wrote => /\ trace.last = "schedulePost"
                         /\ sched.outcome \in {"published", "scheduled"})
    /\ [][store' # store => /\ pc \in {"schedulePost", "authSuspended"}
                            /\ sched'.wrote]_vars

\* a published post whose links were written to a store that held others
C5_Witness ==
    /\ pc = "end"
    /\ sched = [outcome |-> "published", wrote |-> TRUE]
    /\ Range(linksToUse(state)) \subseteq Range(store.data)
    /\ Range(store.data) # Range(linksToUse(state))

\* C6: a resume with {type: "ignore"} ends the run: nothing is published and
\* the cache is not written.
C6_IgnoreEnds ==
    ResumedWith("ignore") =>
        /\ pc = "end"
        /\ state.next = END
        /\ sched = NoSched

\* ignore given after a schedule change and a trip through condensePost
C6_Witness ==
    /\ ResumedWith("ignore")
    /\ pc = "end"
    /\ state.scheduleDate = "p1"
    /\ state.condenseCount > 0

\* C7: from every suspended state a resume with {type: "accept"} makes
\* schedulePost the next stage to run.
C7_AcceptSchedules ==
    ResumedWith("accept") => pc = "schedulePost"

\* accept given on a post that is still too long after the last condense
C7_Witness ==
    /\ ResumedWith("accept")
    /\ pc = "schedulePost"
    /\ state.post > TWITTER_MAX_CHAR_LENGTH
    /\ state.condenseCount = MAX_CONDENSE_ATTEMPTS

\* A string of blanks only (the empty string included)
Blank(str) == \A i \in 1..Len(str) : str[i] = " "

\* A payload none of the parse cases (1) to (5) accepts, or a respond
\* payload with neither a schedule nor a content field that is truthy
Unclassified(p) ==
    \/ p.k \in {"null", "number"}
    \/ p.k = "string" /\ Blank(p.str)
    \/ /\ p.k = "object"
       /\ p.obj.type \notin PermittedTypes
       /\ \A f \in FeedbackFields : ~(p.obj.top[f].def /\ p.obj.top[f].s # <<>>)
    \/ /\ p.k \in {"object", "jsonobject"}
       /\ p.obj.type = "respond"
       /\ \A f \in {"scheduleDate", "date", "post", "content", "text"} :
             ~(p.obj.args.f[f].def /\ p.obj.args.f[f].s # <<>>)

\* C8 as amended: human review selects unknownResponse exactly for the
\* payloads that fit none of the parse cases (null, a number, an empty or
\* blank string, an object with no permitted type and no truthy
\* feedback/message/text, a respond payload without intent), and it raises
\* no error for any payload.
C8_UnclassifiedSelectsUnknown ==
    resume.at = "humanReview" =>
        /\ pc # "threw"
        /\ state.next = "unknownResponse" <=> Unclassified(resume.p)

\* an object with a type that is not permitted and an empty feedback field
C8_Witness ==
    /\ resume.at = "humanReview"
    /\ resume.p.k = "object"
    /\ resume.p.obj.type = "bogus"
    /\ resume.p.obj.top["feedback"] = Some(<<>>)
    /\ state.next = "unknownResponse"

\* The payloads C8 lists as malformed: null, a number, the empty string, an
\* object without a valid type
ListedMalformed(p) ==
    \/ p.k \in {"null", "number"}
    \/ p.k = "string" /\ p.str = <<>>
    \/ p.k = "object" /\ p.obj.type \notin PermittedTypes

\* C8 as stated: every malformed or unexpected payload selects
\* unknownResponse, and human review raises no error.
C8_MalformedSelectsUnknown ==
    (resume.at = "humanReview" /\ ListedMalformed(resume.p)) =>
        /\ pc # "threw"
        /\ state.next = "unknownResponse"

\* C9: after an unclassified response the unknownResponse stage runs next
\* (and from it the run suspends again at human review); the run neither
\* ends nor fails.
C9_UnknownLoopsBack ==
    (resume.at = "humanReview" /\ state.next = "unknownResponse")
        => pc = "unknownResponse"

\* C10: after generatePost and after every condensePost the run ends if
\* there is no post, goes to condensePost if the post is longer than
\* TWITTER_MAX_CHAR_LENGTH and the counter is below MAX_CONDENSE_ATTEMPTS,
\* and goes to human review otherwise.
C10_RouteAfterGeneration ==
    trace.last \in {"generatePost", "condensePost"} =>
        pc = IF state.post = 0 THEN "end"
             ELSE IF state.post > TWITTER_MAX_CHAR_LENGTH
                     /\ state.condenseCount < MAX_CONDENSE_ATTEMPTS
             THEN "condensePost"
             ELSE "humanReview"

\* a post of exactly the limit, fresh from generatePost, goes to review
C10_Witness ==
    /\ trace.last = "generatePost"
    /\ state.post = TWITTER_MAX_CHAR_LENGTH
    /\ state.condenseCount = 0
    /\ pc = "humanReview"

\* C11: every execution of condensePost raises the counter by exactly one,
\* whatever the model call yields, and the edge that follows leaves it
\* there: a 320-character post with counter 0 is sent to condensePost, and
\* when that returns 260 characters the run goes to human review with the
\* counter at 1.
C11_CondenseCountsOnce ==
    [][/\ pc = "condensePost"
          => state'.condenseCount = state.condenseCount + 1
       /\ (pc = "generatePost" /\ state'.post = 320 /\ state'.condenseCount = 0)
          => pc' = "condensePost"
       /\ (pc = "condensePost" /\ state.post = 320 /\ state.condenseCount = 0
             /\ state'.post = 260)
          => (pc' = "humanReview" /\ state'.condenseCount = 1)]_vars

\* the scenario's last state: condensed to 260 characters, counter 1
C11_Witness ==
    /\ trace.last = "condensePost"
    /\ trace.streak = 1
    /\ state.post = 260
    /\ state.condenseCount = 1
    /\ pc = "humanReview"

\* C12: once started or resumed, the run comes to its next stop after
\* finitely many stages, that stop is the suspension inside human review
\* or the end of the run (an exception counted as an end), and condensePost
\* never runs more than MAX_CONDENSE_ATTEMPTS times in a row.
C12_ReachesReviewOrEnd ==
    /\ []<>(pc \in {"suspended", "end", "error", "threw"})
    /\ [](trace.streak <= MAX_CONDENSE_ATTEMPTS)

C14_SuspendsOnlyInReview ==
    pc \notin {"authSuspended"}

\* C15: humanReview entered without a post ends the run in that same step:
\* no interrupt, no resume value read, and since nothing follows the end of
\* a run, no rewritePost, updateScheduleDate or schedulePost.
C15_NoPostEndsRun ==
    /\ [][(pc = "humanReview" /\ state.post = 0)
            => (pc' = "end" /\ resume' = NoResume /\ sched' = NoSched)]_vars
    /\ [][pc = "end" => pc' = "end"]_vars
    /\ [](pc = "suspended" => state.post # 0)

\* a run ended by humanReview for want of a post
C15_Witness ==
    /\ pc = "end"
    /\ trace.last = "humanReview"
    /\ state.post = 0
    /\ state.next = END
    /\ resume = NoResume

\* the feedback updateScheduleDate is given does not parse, or parses to a
\* date that fails validation
ScheduleInputRejected(s) ==
    /\ Truthy(s.userResponse)
    /\ LET parseResult == parseScheduleDate(s.userResponse.s)
       IN \/ ~parseResult.success
          \/ ~validateScheduleDate(parseResult.date)

ScheduleErrors ==
    {Txt("Error: Unable to parse date"),
     Txt("Error: Schedule date must be in the future")}

\* C16: updateScheduleDate given input that does not parse or does not
\* validate keeps scheduleDate as it was, leaves an error text in
\* userResponse, and is followed by humanReview, not by schedulePost.
C16_RejectedScheduleKept ==
    [][(pc = "updateScheduleDate" /\ ScheduleInputRejected(state))
         => /\ state'.scheduleDate = state.scheduleDate
            /\ state'.userResponse \in ScheduleErrors
            /\ pc' = "humanReview"]_vars

\* a schedule stored earlier has survived a date in the past
C16_Witness ==
    /\ pc = "humanReview"
    /\ trace.last = "updateScheduleDate"
    /\ state.scheduleDate = "p1"
    /\ state.userResponse = Txt("Error: Schedule date must be in the future")

\* The non-empty values a payload's args carry under the given keys
Carried(p, keys) ==
    {p.obj.args.f[f] : f \in {g \in keys : p.obj.args.f[g].def
                                          /\ p.obj.args.f[g].s # <<>>}}

\* A payload parsed as a respond response that came with a type
RespondPayload(p) ==
    /\ p.k \in {"object", "jsonobject"}
    /\ p.obj.type = "respond"

\* C17: after a resume with a respond payload, a non-empty scheduleDate or
\* date selects updateScheduleDate; without one, a non-empty post, content
\* or text selects rewritePost and that text is the feedback; with neither
\* the payload is unclassified (next is unknownResponse).
C17_RespondIntent ==
    (resume.at = "humanReview" /\ RespondPayload(resume.p)) =>
        LET when == Carried(resume.p, {"scheduleDate", "date"})
            what == Carried(resume.p, {"post", "content", "text"})
        IN IF when # {}
           THEN /\ state.next = "updateScheduleDate"
                /\ pc = "updateScheduleDate"
                /\ state.userResponse \in when
           ELSE IF what # {}
           THEN /\ state.next = "rewritePost"
                /\ pc = "rewritePost"
                /\ state.userResponse \in what
           ELSE state.next = "unknownResponse"

\* a respond payload with both a date and a text: the date decides
C17_Witness ==
    /\ resume.at = "humanReview"
    /\ RespondPayload(resume.p)
    /\ Carried(resume.p, {"scheduleDate", "date"}) # {}
    /\ Carried(resume.p, {"post", "content", "text"}) # {}
    /\ pc = "updateScheduleDate"

\* C18: when schedulePost is about to start after an accept, userResponse
\* is empty, whatever it held before the accept.
C18_AcceptClearsFeedback ==
    (pc = "schedulePost" /\ ResumedWith("accept")) => ~state.userResponse.def

\* The next stage the switch of humanReviewNode names for a response type
NextFor(type) ==
    CASE type = "accept" -> "schedulePost"
      [] type = "ignore" -> END
      [] type = "edit" -> "rewritePost"

Cache == IF store.present THEN Range(store.data) ELSE {}

\* C20: a check made against a store that is there and can be read returns
\* as new the candidates that are not stored and as duplicate the
\* candidates that are, both in the order of the input, every candidate
\* (counted with its repetitions) in exactly one of the two; and a check
\* never changes what is stored.
C20_CheckPartitions ==
    /\ []((trace.usage.checked /\ cfg.hasStore /\ trace.usage.readOk) =>
            LET u == trace.usage
                isNew(x) == x \notin Cache
                isUsed(x) == x \in Cache
            IN /\ u.newUrls = SelectSeq(u.urls, isNew)
               /\ u.duplicateUrls = SelectSeq(u.urls, isUsed)
               /\ Len(u.newUrls) + Len(u.duplicateUrls) = Len(u.urls)
               /\ Range(u.newUrls) \cap Range(u.duplicateUrls) = {})
    /\ [][store' = store]_vars

\* the example: used.com stored, used.com and new.com checked
C20_Witness ==
    /\ trace.usage.checked
    /\ trace.usage.readOk
    /\ store = [present |-> TRUE, data |-> <<"https://used.com">>]
    /\ trace.usage.urls = <<"https://used.com", "https://new.com">>
    /\ trace.usage.newUrls = <<"https://new.com">>
    /\ trace.usage.duplicateUrls = <<"https://used.com">>

C23_UrlRouteIsGenerateReport ==
    trace.last = "checkUrls" =>
        /\ routeAfterUrlCheck(state) =
              IF state.next = END THEN END ELSE "generateReport"
        /\ "generateReport" \in DOMAIN URL_CHECK_ROUTE_MAP
        /\ URL_CHECK_ROUTE_MAP["generateReport"] = "generateReport"
        /\ URL_CHECK_ROUTE_MAP["end"] = END

AllReturned == \A j \in 1..Len(verify.tasks) : verify.tasks[j].done

\* What the tasks that have returned so far returned under a key
Returned(key) ==
    UNION {Range(TaskResult(verify.tasks[j])[key]) :
              j \in {i \in 1..Len(verify.tasks) :
                        /\ verify.tasks[i].done
                        /\ key \in DOMAIN TaskResult(verify.tasks[i])}}

\* A URL the filter removes
Unwanted(url) ==
    \/ UrlParts(url).ending \in BLACKLISTED_IMAGE_URL_ENDINGS
    \/ UrlParts(url).host \in BLACKLISTED_IMAGE_URLS
    \/ ~UrlParts(url).valid

\* C25: when all tasks have returned, the relevant links and the image
\* options, taken as sets, are fixed by what the tasks returned: whatever
\* the order of the returns, they are the returned URLs the filter lets
\* through.
C25_MergeOrderIndependent ==
    AllReturned =>
        /\ Range(verify.relevantLinks) =
              {u \in Returned("relevantLinks") : ~Unwanted(u)}
        /\ Range(verify.imageOptions) =
              {u \in Returned("imageOptions") : ~Unwanted(u)}

\* two tasks have returned, the second task first: both links are there
C25_Witness ==
    /\ AllReturned
    /\ Len(verify.tasks) = 2
    /\ verify.relevantLinks = <<verify.tasks[1].link, verify.tasks[2].link>>
    /\ verify.tasks[1].link # verify.tasks[2].link

\* A task whose content fetch or relevancy call failed
Failed(task) == task.out.kind \in {"fetchFailed", "classifyFailed"}

\* C26: the return of a task whose fetch or relevancy call failed changes
\* none of the merged fields, so what the other tasks contributed stays as
\* it is, and the task ends like any other: it is done and nothing is
\* raised.
C26_FailedTaskContributesNothing ==
    [][\A j \in 1..Len(verify.tasks) :
          (/\ Failed(verify.tasks[j])
           /\ ~verify.tasks[j].done
           /\ verify'.tasks[j].done)
            => /\ verify'.relevantLinks = verify.relevantLinks
               /\ verify'.pageContents = verify.pageContents
               /\ verify'.imageOptions = verify.imageOptions
               /\ pc' = pc]_vars

\* a failed task and a relevant one have both returned: the relevant
\* task's link and content are all there is
C26_Witness ==
    /\ AllReturned
    /\ Len(verify.tasks) = 2
    /\ verify.tasks[1].out.kind = "relevant"
    /\ verify.tasks[2].out.kind = "classifyFailed"
    /\ verify.relevantLinks = <<verify.tasks[1].link>>
    /\ verify.pageContents = <<verify.tasks[1].link>>

\* How often x occurs in the sequence q
Count(q, x) == Cardinality({i \in 1..Len(q) : q[i] = x})

\* How often the tasks that have returned so far returned the snippet x
CountReturned(x) ==
    LET done == {i \in 1..Len(verify.tasks) : verify.tasks[i].done}
        n[S \in SUBSET done] ==
            IF S = {} THEN 0
            ELSE LET i == CHOOSE k \in S : TRUE
                 IN Count(TaskResult(verify.tasks[i]).pageContents, x) + n[S \ {i}]
    IN n[done]

\* C27: the merged page contents hold every snippet as many times as the
\* tasks returned it, no more and no fewer, at every point of the merge.
C27_PageContentsKeepAll ==
    \A x \in PageUrls : Count(verify.pageContents, x) = CountReturned(x)

\* two tasks on the same link have both returned: its content is there twice
C27_Witness ==
    /\ AllReturned
    /\ Len(verify.tasks) = 2
    /\ verify.tasks[1].link = verify.tasks[2].link
    /\ verify.pageContents = <<verify.tasks[1].link, verify.tasks[1].link>>

\* C28: after every merge the relevant links and the image options hold no
\* URL twice and no URL the filter removes.
C28_MergedLinksClean ==
    /\ \A i, j \in 1..Len(verify.relevantLinks) :
          verify.relevantLinks[i] = verify.relevantLinks[j] => i = j
    /\ \A i, j \in 1..Len(verify.imageOptions) :
          verify.imageOptions[i] = verify.imageOptions[j] => i = j
    /\ \A u \in Range(verify.relevantLinks) \cup Range(verify.imageOptions) :
          ~Unwanted(u)

\* two tasks found the same image: it is kept once
C28_Witness ==
    /\ AllReturned
    /\ Len(verify.tasks) = 2
    /\ verify.tasks[1].out.images = <<"https://a.com/image.png">>
    /\ verify.tasks[2].out.images = <<"https://a.com/image.png">>
    /\ verify.tasks[1].node = "verifyGeneralContent"
    /\ verify.tasks[2].node = "verifyGeneralContent"
    /\ verify.imageOptions = <<"https://a.com/image.png">>

\* C29: no stage ends by throwing: a failure of the language model, of a
\* content fetch, of a store read or write, or of a platform client never
\* leaves the run ended by an exception.
C29_NoStageThrows ==
    pc \notin {"threw"}


\* C30: a publish attempt reports overall success exactly when at least one
\* requested platform succeeded, and it returns one result per requested
\* platform, in order: a platform that failed or threw has its own failed
\* result and the platforms after it were still attempted.
C30_PublishAnySuccess ==
    publish.ret.returned =>
        /\ publish.ret.published
              <=> (\E i \in 1..Len(publish.platforms) : publish.outs[i] = "success")
        /\ Len(publish.ret.results) = Len(publish.platforms)
        /\ \A i \in 1..Len(publish.platforms) :
              /\ publish.ret.results[i].platform = publish.platforms[i]
              /\ publish.ret.results[i].success <=> publish.outs[i] = "success"
              /\ publish.outs[i] # "success"
                    => publish.ret.results[i].error # "none"

\* the first platform threw, the second one posted: success is reported
C30_Witness ==
    /\ publish.ret.returned
    /\ publish.outs = <<"exception", "success">>
    /\ publish.ret.published
    /\ Len(publish.ret.results) = 2


\* Run j went on past its dedup check with link l and published it
PublishedLink(j, l) ==
    /\ writers[j].outcome = "published"
    /\ l \in Range(writers[j].urls)

\* C31: two concurrent runs can both publish a shared link, and only the
\* window between a run's dedup check and its cache write lets them: when
\* both checks read the store, two runs publish the same link only if
\* neither had ended its save before the other made its check.
C31_DoublePublishOnlyInWindow ==
    \A i \in Instances, j \in Instances, l \in Links :
       (/\ i # j
        /\ PublishedLink(i, l) /\ PublishedLink(j, l)
        /\ writers[i].readOk /\ writers[j].readOk)
          => i \notin writers[j].after /\ j \notin writers[i].after

\* both runs read the store at their checks, both saw the shared link as
\* new, both published it and both have ended
C31_Witness ==
    /\ PublishedLink(1, "https://a.com") /\ PublishedLink(2, "https://a.com")
    /\ writers[1].readOk /\ writers[2].readOk
    /\ writers[1].phase = "end" /\ writers[2].phase = "end"
    /\ writers[1].after = {} /\ writers[2].after = {}


\* C32 as stated: in every state reached right after rewritePost, the
\* after-rewrite router selects the route the after-generation router
\* selects for that state.
C32_RewriteRoutesAsGeneration ==
    trace.last = "rewritePost"
        => routeAfterRewrite(state) = routeAfterPostGeneration(state)

\* C32: in every state reached right after rewritePost with a post that is
\* not empty, the after-rewrite router selects the route the
\* after-generation router selects, and the run is at that route's stage;
\* with an empty post the after-rewrite router selects human review where
\* the after-generation router selects the terminal route.
C32_RewriteRoutesAsGenerationWithPost ==
    trace.last = "rewritePost"
        => /\ state.post # 0
                => /\ routeAfterRewrite(state) = routeAfterPostGeneration(state)
                   /\ pc = Destination(POST_GENERATION_ROUTE_MAP,
                                       routeAfterPostGeneration(state))
           /\ state.post = 0
                => /\ routeAfterRewrite(state) = "humanReview"
                   /\ routeAfterPostGeneration(state) = "end"
                   /\ pc = "humanReview"

\* the rewritten post is over the limit and goes to condensePost
C32_Witness ==
    /\ trace.last = "rewritePost"
    /\ state.post > TWITTER_MAX_CHAR_LENGTH
    /\ state.condenseCount = 0
    /\ pc = "condensePost"

\* a failed rewrite left a post over the limit with the counter used up:
\* both routers select human review
C32_WitnessExhausted ==
    /\ trace.last = "rewritePost"
    /\ state.post > TWITTER_MAX_CHAR_LENGTH
    /\ state.condenseCount = MAX_CONDENSE_ATTEMPTS
    /\ pc = "humanReview"


\* The stage the conditional edge after a stage leads to, for the state the
\* stage left; a run resumed in human review is at "suspended"
RouteOf(stage, s) ==
    CASE stage = "checkUrls" ->
            Destination(URL_CHECK_ROUTE_MAP, routeAfterUrlCheck(s))
      [] stage = "generatePost" ->
            Destination(POST_GENERATION_ROUTE_MAP, routeAfterPostGeneration(s))
      [] stage = "condensePost" ->
            Destination(POST_GENERATION_ROUTE_MAP, routeAfterCondense(s))
      [] stage = "rewritePost" ->
            Destination(POST_GENERATION_ROUTE_MAP, routeAfterRewrite(s))
      [] stage = "suspended" ->
            Destination(HUMAN_RESPONSE_ROUTE_MAP, routeAfterHumanResponse(s))

PublishCalled ==
    /\ sched' # sched
    /\ sched'.outcome \in {"published", "failed"}

\* uploadPost of the upload_post graph called the platform clients in this step
UploadCalled == publish' # publish

\* A run enters schedulePost only from the suspension of human review, by a
\* resume value that parses as accept, and waits for authentication inside
\* schedulePost only from schedulePost
AcceptedOnly ==
    /\ pc' = "schedulePost"
          => /\ pc = "suspended"
             /\ resume'.at = "humanReview"
             /\ parseHumanResponse(resume'.p).type = "accept"
    /\ (pc' = "authSuspended" /\ pc # "authSuspended")
          => pc = "schedulePost"

\* C34 as stated: a publish collaborator is called only after the run was
\* suspended at human review and resumed with an accept response, in
\* whatever graph the run is a run of.
C34_NoPublishWithoutAccept ==
    [][/\ AcceptedOnly
       /\ (PublishCalled \/ UploadCalled)
             => pc \in {"schedulePost", "authSuspended"}]_vars

\* C34: in a run of the generate_post graph a publish collaborator is
\* called only after the run was suspended at human review and resumed with
\* an accept response: publishPost is called only by schedulePost, entered
\* or re-entered, and schedulePost is entered only by an accepted review.
\* The upload_post graph calls the platform clients from its uploadPost
\* node, which no review precedes.
C34_PublishOnlyAfterAccept ==
    [][/\ AcceptedOnly
       /\ PublishCalled => pc \in {"schedulePost", "authSuspended"}
       /\ UploadCalled => pc = "uploadPost"]_vars

\* a run went through schedulePost and its post was published
C34_Witness ==
    /\ pc = "end"
    /\ sched.outcome = "published"
    /\ trace.last = "schedulePost"


\* C40: in the upload_post graph a post that is empty, or longer than 280
\* characters with twitter among the platforms, or whose authentication
\* check failed, is never handed to a platform client (uploadPost's loop
\* does not run for it), and a run that has ended went through finalize.
C40_InvalidPostNeverSent ==
    /\ (\/ state.content.len = 0
        \/ "twitter" \in Range(state.platforms)
              /\ state.content.len > TWITTER_MAX_CHAR_LENGTH
        \/ state.error = "Authentication failed")
          => /\ publish = NoPublish
             /\ state.results = <<>>
             /\ pc # "uploadPost"
    /\ pc = "end" => trace.last = "finalize"

\* a post over the limit for twitter and linkedin ended through finalize
\* with its validation error and no result
C40_Witness ==
    /\ pc = "end"
    /\ state.content.len > TWITTER_MAX_CHAR_LENGTH
    /\ Range(state.platforms) = {"twitter", "linkedin"}
    /\ state.error = "Post exceeds Twitter's 280 character limit"
    /\ publish = NoPublish

\* the authentication check failed after a resume: finalize, nothing sent
C40_WitnessAuth ==
    /\ pc = "end"
    /\ state.error = "Authentication failed"
    /\ resume.at = "requireAuth"
    /\ publish = NoPublish


\* The route is a key of the route map and the map sends it to a registered
\* node or to the terminal
Resolves(routeMap, route) ==
    /\ route \in DOMAIN routeMap
    /\ routeMap[route] \in Nodes \cup {END}

\* C35: every route a router returns in a reachable state is a key of the
\* route map wired to that router and maps to a registered stage or to the
\* terminal: the routes of the human-review router, of the dedup router and
\* of the three post routers all resolve.
C35_RoutesResolve ==
    [][/\ pc = "suspended"
          => Resolves(HUMAN_RESPONSE_ROUTE_MAP, routeAfterHumanResponse(state'))
       /\ pc = "checkUrls"
          => Resolves(URL_CHECK_ROUTE_MAP, routeAfterUrlCheck(state'))
       /\ pc \in {"generatePost", "condensePost", "rewritePost"}
          => pc' = RouteOf(pc, state') /\ pc' # "error"]_vars


\* C36: after an accept the schedule/publish stage runs once and the run
\* then reaches the terminal route, whatever the outcome: every step out of
\* schedulePost, entered or resumed after its authentication wait, ends the
\* run or starts that wait, and publishPost is not called a second time.
C36_ScheduleOnceThenEnd ==
    [][/\ pc \in {"schedulePost", "authSuspended"}
          => pc' \in {"end", "authSuspended"}
       /\ PublishCalled => sched = NoSched]_vars


\* Run j made its dedup check, and read the store in it, after run i,
\* started with the same links, had ended with a publish or a schedule
Later(i, j) ==
    /\ i # j
    /\ i \in writers[j].after
    /\ writers[j].readOk
    /\ writers[j].links = writers[i].links
    /\ writers[i].links # <<>>

\* C37: after a run ended with a publish or a schedule for links L, a later
\* run started with the same L against the same store stops at the dedup
\* check: it does not go on to verification, generation or publishing.
C37_LaterRunStopsAtCheck ==
    \A i \in Instances, j \in Instances :
       Later(i, j) => writers[j].phase \in {"end", "error"} /\ writers[j].outcome = "none"


\* C38: a save whose read of the stored set failed, with no other save
\* under way, does not replace the stored set by its own links: every link
\* stored before its put is stored after it.
C38_FailedReadKeepsStored ==
    [][(/\ store.present /\ store'.present
        /\ ~trace'.overlapped)
          => Range(store.data) \subseteq Range(store'.data)]_vars


\* C39: human review (entered, and resumed with any response), the
\* schedule update and the unknown-response node change only the feedback,
\* the next stage and the schedule: the post, the report, both link lists
\* and the condense counter are after the stage what they were before it.
C39_ReviewStagesKeepContent ==
    [][(pc \in {"humanReview", "suspended", "updateScheduleDate"})
          => /\ \A f \in DOMAIN state \ {"userResponse", "next", "scheduleDate"} :
                   state'[f] = state[f]
             /\ DOMAIN unknownResponseNode(state) \subseteq {"userResponse", "next"}]_vars

\* a schedule update stored a slot for a post that had been condensed
C39_Witness ==
    /\ trace.last = "updateScheduleDate"
    /\ state.scheduleDate = "p1"
    /\ state.condenseCount > 0
    /\ state.post > 0

=============================================================================
